---- MODULE Spec2Model ----
(***************************************************************************)
(* CryptoPulse: the Fetcher (crypto_api.py), the Store (save_latest_data,  *)
(* load_data), the Aggregator (data_analysis.py) and the page views of     *)
(* app.py, as one state machine over the snapshot file on disk.            *)
(*                                                                         *)
(* Values are tagged so that Python None, a key that is absent, JSON null  *)
(* and the float NaN stay distinct: [t |-> tag, v |-> integer] for the     *)
(* numeric fields and [t |-> tag, s |-> sequence of characters] for the    *)
(* string fields.  Numbers are integers; a mean rounded to two decimals is *)
(* kept in hundredths.                                                     *)
(***************************************************************************)
EXTENDS Integers, Sequences, FiniteSets, TLC

VARIABLES fsDir, fsFile, view, fcall, scall, acall

vars == <<fsDir, fsFile, view, fcall, scall, acall>>

(* ------------------------------ bounds -------------------------------- *)
MaxLen == 2

MaxRetries == 3

MaxN == 3

MaxSaves == 2

MaxAggLen == 3

MaxAppLen == 2

(* ------------------------- program constants -------------------------- *)
DefaultRetries == 3

DefaultDelay == 2

DefaultN == 3

(* ------------------------------ values -------------------------------- *)
Num(n) == [t |-> "num", v |-> n]

Absent == [t |-> "absent", v |-> 0]

PyNone == [t |-> "none", v |-> 0]

JNull == [t |-> "null", v |-> 0]

NaN == [t |-> "nan", v |-> 0]

Str(chars) == [t |-> "str", s |-> chars]

SAbsent == [t |-> "absent", s |-> <<>>]

SNone == [t |-> "none", s |-> <<>>]

SNull == [t |-> "null", s |-> <<>>]

Min(a, b) == IF a <= b THEN a ELSE b

SeqsUpTo(S, n) == UNION {[1..k -> S] : k \in 0..n}

(* str.upper() on the characters the model uses *)
UpperChar(c) ==
  CASE c = "a" -> "A"
    [] c = "b" -> "B"
    [] c = "t" -> "T"
    [] OTHER -> c

Upper(chars) == [i \in 1..Len(chars) |-> UpperChar(chars[i])]

(* dict.get(key, default): the default only when the key is absent; a key  *)
(* that is present with value None yields None                             *)
Get(val, default) == IF val.t = "absent" THEN default ELSE val

(* Python truth value of a numeric field: None and 0 are falsy *)
Truthy(val) == val.t = "num" /\ val.v # 0

(* a if a is not None else b *)
PyOrNoneOnly(a, b) == IF a.t = "num" THEN a ELSE b

(* a or b *)
PyOr(a, b) == IF Truthy(a) THEN a ELSE b

(* ------------------------------ Fetcher ------------------------------- *)
(* One element of the cleaned_data list comprehension, for an entry whose  *)
(* symbol is a string or absent.                                           *)
CleanCoin(coin) ==
  [ name |-> Get(coin.name, SNone),
    symbol |-> Str(Upper(Get(coin.symbol, Str(<<>>)).s)),
    current_price |-> Get(coin.current_price, Num(0)),
    price_change_percentage_24h |->
        PyOr(Get(coin.price_change_percentage_24h, PyNone),
             Get(coin.price_change_percentage_24h_in_currency, Num(0))),
    total_volume |-> Get(coin.total_volume, Num(0)),
    market_cap |-> Get(coin.market_cap, Num(0)),
    image |-> Get(coin.image, SNone) ]

(* cleaned_data: one record per entry, in the order of the response *)
CleanAll(body) == [i \in 1..Len(body) |-> CleanCoin(body[i])]

(* None.upper() raises AttributeError, which the except clause (it catches *)
(* requests' RequestException only) does not catch.                        *)
CleanRaises(body) == \E i \in 1..Len(body) : body[i].symbol.t = "none"

GetEv == [ev |-> "get", d |-> 0]

SleepEv(delay) == [ev |-> "sleep", d |-> delay]

FetchResult(kind, data, attempts, log) ==
  [kind |-> kind, data |-> data, attempts |-> attempts, log |-> log]

(* a sleep after every failed attempt, the last one included *)
SleepAfterEveryFailure(attempt, retries) == attempt <= retries

(* `if attempt < retries`: a failed attempt is followed by a sleep and a   *)
(* further attempt; the last one by the return of the empty list           *)
RetryAgain(attempt, retries) == attempt < retries

(* The for loop of fetch_top_coins from `attempt` on.  fails[k] tells      *)
(* whether the k-th requests.get / raise_for_status raises a               *)
(* RequestException; body is the parsed JSON of a successful response.     *)
(* kind is "list" (a list is returned), "none" (the loop ends and the      *)
(* function falls off its end, returning None) or "raise".                 *)
RECURSIVE FetchLoop(_, _, _, _, _, _)
FetchLoop(attempt, retries, delay, fails, body, log) ==
  IF attempt > retries
    THEN FetchResult("none", <<>>, attempt - 1, log)
    ELSE LET log1 == Append(log, GetEv)
         IN IF ~fails[attempt]
              THEN IF CleanRaises(body)
                     THEN FetchResult("raise", <<>>, attempt, log1)
                     ELSE FetchResult("list", CleanAll(body), attempt, log1)
              ELSE IF RetryAgain(attempt, retries)
                     THEN FetchLoop(attempt + 1, retries, delay, fails, body,
                                    Append(log1, SleepEv(delay)))
                     ELSE FetchResult("list", <<>>, attempt, log1)

fetch_top_coins(retries, delay, fails, body) ==
  FetchLoop(1, retries, delay, fails, body, <<>>)

(* ------------------------------- Store -------------------------------- *)
(* json.dump of one Python value: None is written as null *)
DumpNum(val) == IF val.t = "none" THEN JNull ELSE val

DumpStr(val) == IF val.t = "none" THEN SNull ELSE val

DumpRecord(r) ==
  [ name |-> DumpStr(r.name), symbol |-> DumpStr(r.symbol),
    current_price |-> DumpNum(r.current_price),
    price_change_percentage_24h |-> DumpNum(r.price_change_percentage_24h),
    total_volume |-> DumpNum(r.total_volume),
    market_cap |-> DumpNum(r.market_cap),
    image |-> DumpStr(r.image) ]

(* the JSON array of a list of records *)
DumpAll(data) == [i \in 1..Len(data) |-> DumpRecord(data[i])]

(* open(filepath, "w") truncates; json.dump writes the whole list *)
WriteFile(file, data) == [exists |-> TRUE, content |-> DumpAll(data)]

(* save_latest_data: the directory and the file after the call *)
save_latest_data(dir, file, data) == [dir |-> TRUE, file |-> WriteFile(file, data)]

(* json.load gives None for null; pd.to_numeric(errors="coerce") turns a   *)
(* None of a numeric column into NaN                                       *)
ToNumeric(val) == IF val.t = "null" THEN NaN ELSE val

LoadStr(val) == IF val.t = "null" THEN SNone ELSE val

Columns ==
  {"name", "symbol", "current_price", "price_change_percentage_24h",
   "total_volume", "market_cap", "image"}

(* row i of the DataFrame, with the RangeIndex label it gets *)
LoadRow(content, i) ==
  [ idx |-> i - 1,
    name |-> LoadStr(content[i].name), symbol |-> LoadStr(content[i].symbol),
    current_price |-> ToNumeric(content[i].current_price),
    price_change_percentage_24h |-> ToNumeric(content[i].price_change_percentage_24h),
    total_volume |-> ToNumeric(content[i].total_volume),
    market_cap |-> ToNumeric(content[i].market_cap),
    image |-> LoadStr(content[i].image) ]

EmptyFrame == [kind |-> "frame", columns |-> {}, rows |-> <<>>]

RaisedFrame == [kind |-> "raise", columns |-> {}, rows |-> <<>>]

(* a load that creates the missing file *)
TouchFile(file) == [exists |-> TRUE, content |-> file.content]

(* load_data leaves the file as it is *)
FileAfterLoad(file) == file

(* load_data: pd.DataFrame() when the file is absent.  pd.DataFrame([])    *)
(* has no columns, so df[col] raises KeyError for a file holding [].       *)
load_data(file) ==
  IF ~file.exists
    THEN EmptyFrame
    ELSE IF Len(file.content) = 0
      THEN RaisedFrame
      ELSE [ kind |-> "frame", columns |-> Columns,
             rows |-> [i \in 1..Len(file.content) |-> LoadRow(file.content, i)] ]

(* df.empty *)
IsEmpty(df) == Len(df.rows) = 0 \/ df.columns = {}

(* ----------------------------- Aggregator ----------------------------- *)
Change(row) == row.price_change_percentage_24h

IsNum(val) == val.t = "num"

RECURSIVE SumNums(_)
(* Series.sum(): NaN is skipped *)
SumNums(vals) ==
  IF vals = <<>> THEN 0
  ELSE (IF IsNum(Head(vals)) THEN Head(vals).v ELSE 0) + SumNums(Tail(vals))

CountNums(vals) == Cardinality({i \in 1..Len(vals) : IsNum(vals[i])})

(* a / b rounded to the nearest integer, halves to the even one (b > 0) *)
RoundDiv(a, b) ==
  LET q == a \div b
      r == a % b
  IN IF 2 * r < b THEN q
     ELSE IF 2 * r > b THEN q + 1
     ELSE IF q % 2 = 0 THEN q ELSE q + 1

(* round(Series.mean(), 2) in hundredths; NaN when no value is a number *)
RoundedMean(vals) ==
  IF CountNums(vals) = 0 THEN NaN
  ELSE Num(RoundDiv(100 * SumNums(vals), CountNums(vals)))

Column(df, col) == [i \in 1..Len(df.rows) |-> df.rows[i][col]]

EmptyDict == [k \in {} |-> 0]

(* a count that leaves out the rows without a price *)
CountPriced(df) == CountNums(Column(df, "current_price"))

(* len(df) *)
FrameLen(df) == Len(df.rows)

(* compute_summary: {} for an empty frame *)
compute_summary(df) ==
  IF IsEmpty(df)
    THEN EmptyDict
    ELSE [ total_coins |-> FrameLen(df),
           average_price |-> RoundedMean(Column(df, "current_price")),
           average_change_24h |-> RoundedMean(Column(df, "price_change_percentage_24h")),
           total_market_cap |-> Num(SumNums(Column(df, "market_cap"))),
           total_volume |-> Num(SumNums(Column(df, "total_volume"))) ]

(* the order of the selection: whether row a has to come behind row b *)
Behind(a, b, order) ==
  CASE order = "descending" -> Change(a).v < Change(b).v
    [] order = "ascending" -> Change(a).v > Change(b).v
    [] order = "descending, last first" -> Change(a).v <= Change(b).v

(* x goes in front of the first element that has to come behind it, so     *)
(* after every element of equal value: a stable insertion                  *)
RECURSIVE InsertStable(_, _, _)
InsertStable(sorted, x, order) ==
  IF sorted = <<>> THEN <<x>>
  ELSE IF Behind(Head(sorted), x, order)
    THEN <<x>> \o sorted
    ELSE <<Head(sorted)>> \o InsertStable(Tail(sorted), x, order)

RECURSIVE StableSort(_, _)
StableSort(rows, order) ==
  IF rows = <<>> THEN <<>>
  ELSE InsertStable(StableSort(SubSeq(rows, 1, Len(rows) - 1), order),
                    rows[Len(rows)], order)

Take(rows, n) == SubSeq(rows, 1, Min(n, Len(rows)))

HasChange(row) == IsNum(Change(row))

LacksChange(row) == ~IsNum(Change(row))

(* the rows with a number in the column, then those with NaN in input order *)
NumbersThenNaN(rows, order) ==
  StableSort(SelectSeq(rows, HasChange), order) \o SelectSeq(rows, LacksChange)

(* keep="last": among equal values the later row comes first *)
NLargestKeepLast(rows, n) == Take(NumbersThenNaN(rows, "descending, last first"), n)

(* df.nlargest(n, column), keep="first": descending, equal values in input *)
(* order, rows with NaN after the numbers                                  *)
NLargest(rows, n) == Take(NumbersThenNaN(rows, "descending"), n)

(* df.nsmallest(n, column), keep="first" *)
NSmallest(rows, n) == Take(NumbersThenNaN(rows, "ascending"), n)

(* [["name", "symbol", "price_change_percentage_24h"]]; the index label    *)
(* stays with the row                                                      *)
Project(row) ==
  [ idx |-> row.idx, name |-> row.name, symbol |-> row.symbol,
    price_change_percentage_24h |-> row.price_change_percentage_24h ]

ProjectAll(rows) == [i \in 1..Len(rows) |-> Project(rows[i])]

top_movers(df, n) ==
  IF IsEmpty(df)
    THEN [top_gainers |-> <<>>, top_losers |-> <<>>]
    ELSE [ top_gainers |-> ProjectAll(NLargest(df.rows, n)),
           top_losers |-> ProjectAll(NSmallest(df.rows, n)) ]

(* --------------------------- upstream inputs -------------------------- *)
BaseCoin ==
  [ name |-> Str(<<"B">>), symbol |-> Str(<<"b", "T">>),
    current_price |-> Num(5),
    price_change_percentage_24h |-> Num(2),
    price_change_percentage_24h_in_currency |-> Absent,
    total_volume |-> Num(9), market_cap |-> Num(40),
    image |-> Str(<<"u">>) ]

ChangeVals == {Absent, PyNone, Num(0), Num(2)}

InCurrencyVals == {Absent, PyNone, Num(0), Num(7)}

ChangeCoins ==
  { [BaseCoin EXCEPT !.price_change_percentage_24h = c,
                     !.price_change_percentage_24h_in_currency = i] :
      c \in ChangeVals, i \in InCurrencyVals }

FieldCoins ==
  { [BaseCoin EXCEPT !.name = SAbsent, !.symbol = SAbsent,
                     !.current_price = Absent, !.total_volume = Absent,
                     !.market_cap = Absent, !.image = SAbsent],
    [BaseCoin EXCEPT !.name = SNone, !.symbol = SNone,
                     !.current_price = PyNone, !.total_volume = PyNone,
                     !.market_cap = PyNone, !.image = SNone],
    [BaseCoin EXCEPT !.name = Str(<<"a">>), !.symbol = Str(<<"a">>),
                     !.current_price = PyNone, !.total_volume = Num(0),
                     !.market_cap = PyNone],
    [BaseCoin EXCEPT !.name = Str(<<"E">>), !.symbol = Str(<<>>),
                     !.current_price = Num(0), !.total_volume = Num(0),
                     !.market_cap = Num(0)] }

UpstreamCoins == ChangeCoins \cup FieldCoins

Bodies == SeqsUpTo(UpstreamCoins, MaxLen)

Delays == {1, DefaultDelay}

NoCall == [op |-> "none"]

Idle ==
  /\ fsDir = FALSE
  /\ fsFile = [exists |-> FALSE, content |-> <<>>]
  /\ view = NoCall

(* ----------------------------- page views ----------------------------- *)
NoFetch == FetchResult("not called", <<>>, 0, <<>>)

NoFrame == [kind |-> "not loaded", columns |-> {}, rows |-> <<>>]

(* what one request did: existed and dirBefore are the file system before  *)
(* the request, fetches and loads count the calls of fetch_top_coins and   *)
(* load_data, calls holds the Aggregator functions called                  *)
View(route, fetch, loads, df, calls, status, page, payload) ==
  [ op |-> "request", route |-> route, existed |-> fsFile.exists, dirBefore |-> fsDir,
    fetches |-> IF fetch = NoFetch THEN 0 ELSE 1, fetch |-> fetch,
    loads |-> loads, df |-> df, calls |-> calls,
    status |-> status, page |-> page, payload |-> payload ]

(* a fetch on every view of the index page *)
FetchAlways(exists) == TRUE

(* `if not os.path.exists(DATA_PATH)` *)
NeedsFetch(exists) == ~exists

(* the rows in the order of row positions p *)
Reorder(rows, p) == [i \in 1..Len(rows) |-> rows[p[i]]]

(* a before b is allowed by sort_values(by=col, ascending=asc): NaN last   *)
InOrder(a, b, col, asc) ==
  IF a[col].t = "num" /\ b[col].t = "num"
    THEN IF asc THEN a[col].v <= b[col].v ELSE a[col].v >= b[col].v
    ELSE b[col].t # "num"

(* df.sort_values: the default sort is not stable, so rows of equal value  *)
(* come in any order                                                       *)
SortValues(rows, col, asc) ==
  { Reorder(rows, p) : p \in
      { q \in Permutations(1..Len(rows)) :
          \A i, j \in 1..Len(rows) :
            i < j => InOrder(rows[q[i]], rows[q[j]], col, asc) } }

(* request.args: sort ("" when not given) and order *)
SortArgs == {"", "current_price", "price_change_percentage_24h", "rank"}

OrderArgs == {"asc", "desc"}

Attempts == [1..DefaultRetries -> BOOLEAN]

AppCoins ==
  { BaseCoin,
    [BaseCoin EXCEPT !.name = Str(<<"a">>), !.symbol = Str(<<"a">>),
                     !.current_price = PyNone, !.total_volume = Num(0),
                     !.market_cap = PyNone],
    [BaseCoin EXCEPT !.name = SNone, !.symbol = SNone,
                     !.current_price = PyNone, !.total_volume = PyNone,
                     !.market_cap = PyNone, !.image = SNone] }

AppBodies == SeqsUpTo(AppCoins, MaxAppLen)

(* what the upstream does during a request: nothing to choose when the     *)
(* request does not call it                                                *)
Upstream(called) ==
  IF called THEN Attempts \X AppBodies
  ELSE {<<[k \in 1..DefaultRetries |-> TRUE], <<>>>>}

(* index(): GET / *)
Index ==
  \E sort_by \in SortArgs, order \in OrderArgs, up \in Upstream(NeedsFetch(fsFile.exists)) :
    LET fetch == IF NeedsFetch(fsFile.exists)
                   THEN fetch_top_coins(DefaultRetries, DefaultDelay, up[1], up[2])
                   ELSE NoFetch
        df == load_data(fsFile)
    IN /\ IF fetch.kind = "raise"
            THEN view' = View("index", fetch, 0, NoFrame, {}, 500, "error", <<>>)
            ELSE IF df.kind = "raise"
              THEN view' = View("index", fetch, 1, df, {}, 500, "error", <<>>)
              ELSE \E cryptos \in
                        (IF sort_by \in df.columns
                           THEN SortValues(df.rows, sort_by, order = "asc")
                           ELSE {df.rows}) :
                     view' = View("index", fetch, 1, df, {}, 200, "index.html", cryptos)
       /\ fsFile' = (IF fetch.kind = "raise" THEN fsFile ELSE FileAfterLoad(fsFile))
       /\ UNCHANGED <<fsDir, fcall, scall, acall>>

AggregatorCalls == {"compute_summary", "top_movers", "correlation_matrix"}

(* analytics(): GET /analytics.  correlation_matrix is called and its      *)
(* table rendered; its coefficients are not part of the payload here.      *)
Analytics ==
  LET df == load_data(fsFile)
  IN /\ IF df.kind = "raise"
          THEN view' = View("analytics", NoFetch, 1, df, {}, 500, "error", <<>>)
          ELSE IF IsEmpty(df)
            THEN view' = View("analytics", NoFetch, 1, df, {}, 200, "no data", <<>>)
            ELSE view' = View("analytics", NoFetch, 1, df, AggregatorCalls, 200,
                              "analytics.html",
                              [ summary |-> compute_summary(df),
                                movers |-> top_movers(df, DefaultN),
                                names |-> Column(df, "name"),
                                prices |-> Column(df, "current_price"),
                                changes |-> Column(df, "price_change_percentage_24h") ])
     /\ fsFile' = FileAfterLoad(fsFile)
     /\ UNCHANGED <<fsDir, fcall, scall, acall>>

ChartData(data) ==
  [ names |-> [i \in 1..Len(data) |-> data[i].name],
    prices |-> [i \in 1..Len(data) |-> data[i].current_price],
    volumes |-> [i \in 1..Len(data) |-> data[i].total_volume],
    changes |-> [i \in 1..Len(data) |-> data[i].price_change_percentage_24h] ]

(* charts(): GET /charts *)
Charts ==
  \E fails \in Attempts, body \in AppBodies :
    LET fetch == fetch_top_coins(DefaultRetries, DefaultDelay, fails, body)
    IN /\ IF fetch.kind = "raise"
            THEN view' = View("charts", fetch, 0, NoFrame, {}, 500, "error", <<>>)
            ELSE IF fetch.kind = "none"
              THEN view' = View("charts", fetch, 0, NoFrame, {}, 500,
                                "could not fetch", <<>>)
              ELSE view' = View("charts", fetch, 0, NoFrame, {}, 200, "charts.html",
                                ChartData(fetch.data))
       /\ UNCHANGED <<fsDir, fsFile, fcall, scall, acall>>

(* astype(float): None becomes NaN *)
AsFloat(val) == IF val.t = "none" THEN NaN ELSE val

(* get_data_as_dataframe followed by the four-column preview *)
Preview(data) ==
  [ i \in 1..Len(data) |->
      [ name |-> data[i].name, symbol |-> data[i].symbol,
        current_price |-> AsFloat(data[i].current_price),
        price_change_percentage_24h |-> AsFloat(data[i].price_change_percentage_24h) ] ]

(* the script crypto_api.py ("the scraper"): fetch, and save when the      *)
(* list is not empty                                                       *)
Scraper ==
  \E fails \in Attempts, body \in AppBodies :
    LET fetch == fetch_top_coins(DefaultRetries, DefaultDelay, fails, body)
        saves == fetch.kind = "list" /\ Len(fetch.data) > 0
        after == save_latest_data(fsDir, fsFile, fetch.data)
    IN /\ view' = View("scraper", fetch, 0, NoFrame, {},
                       IF fetch.kind = "raise" THEN 1 ELSE 0,
                       IF saves THEN "saved" ELSE "failed",
                       IF saves THEN Preview(fetch.data) ELSE <<>>)
       /\ fsDir' = (IF saves THEN after.dir ELSE fsDir)
       /\ fsFile' = (IF saves THEN after.file ELSE fsFile)
       /\ UNCHANGED <<fcall, scall, acall>>

Init ==
  /\ Idle
  /\ fcall = NoCall
  /\ scall = NoCall
  /\ acall = NoCall

Next == Index \/ Analytics \/ Charts \/ Scraper

Spec == Init /\ [][Next]_vars

(* --------------------- specification of the Fetcher ------------------- *)
FetchArgs ==
  UNION { [retries : {r}, delay : Delays, fails : [1..r -> BOOLEAN], body : Bodies] :
            r \in 0..MaxRetries }

InitFetch ==
  /\ Idle
  /\ scall = NoCall
  /\ acall = NoCall
  /\ \E args \in FetchArgs : fcall = [op |-> "pending", args |-> args]

FetchCall ==
  /\ fcall.op = "pending"
  /\ fcall' = [op |-> "done", args |-> fcall.args,
               ret |-> fetch_top_coins(fcall.args.retries, fcall.args.delay,
                                       fcall.args.fails, fcall.args.body)]
  /\ UNCHANGED <<fsDir, fsFile, view, scall, acall>>

NextFetch == FetchCall

SpecFetch == InitFetch /\ [][NextFetch]_vars

(* ---------------------- specification of the Store -------------------- *)
CleanCoins == {CleanCoin(c) : c \in {u \in UpstreamCoins : u.symbol.t # "none"}}

Snapshots == SeqsUpTo(CleanCoins, MaxLen)

InitStore ==
  /\ fsDir \in BOOLEAN
  /\ fsFile = [exists |-> FALSE, content |-> <<>>]
  /\ view = NoCall
  /\ fcall = NoCall
  /\ acall = NoCall
  /\ scall = [op |-> "none", saves |-> 0, data |-> <<>>, dirBefore |-> fsDir,
              ret |-> EmptyFrame]

SaveCall ==
  /\ scall.saves < MaxSaves
  /\ \E data \in Snapshots :
       LET after == save_latest_data(fsDir, fsFile, data)
       IN /\ fsDir' = after.dir
          /\ fsFile' = after.file
          /\ scall' = [op |-> "save", saves |-> scall.saves + 1, data |-> data,
                       dirBefore |-> fsDir, ret |-> EmptyFrame]
  /\ UNCHANGED <<view, fcall, acall>>

LoadCall ==
  /\ scall.op # "load"
  /\ scall' = [scall EXCEPT !.op = "load", !.ret = load_data(fsFile)]
  /\ fsFile' = FileAfterLoad(fsFile)
  /\ UNCHANGED <<fsDir, view, fcall, acall>>

NextStore == SaveCall \/ LoadCall

SpecStore == InitStore /\ [][NextStore]_vars

(* -------------------- specification of the Aggregator ----------------- *)
AggChanges == {PyNone, Num(-3), Num(2), Num(5)}

AggNames == {Str(<<"a">>), Str(<<"B">>)}

AggCoins ==
  { [CleanCoin(BaseCoin) EXCEPT !.name = nm, !.price_change_percentage_24h = c,
                                !.current_price = IF c.t = "num" THEN Num(c.v + 4) ELSE c] :
      nm \in AggNames, c \in AggChanges }

(* the frames load_data returns: for an absent file and for saved snapshots *)
AggFrames ==
  {EmptyFrame} \cup
  { load_data(WriteFile([exists |-> FALSE, content |-> <<>>], data)) :
      data \in SeqsUpTo(AggCoins, MaxAggLen) \ {<<>>} }

InitAgg ==
  /\ Idle
  /\ fcall = NoCall
  /\ scall = NoCall
  /\ \E df \in AggFrames, n \in 0..MaxN : acall = [op |-> "pending", df |-> df, n |-> n]

SummaryCall ==
  /\ acall.op = "pending"
  /\ acall' = [op |-> "compute_summary", df |-> acall.df, n |-> acall.n,
               ret |-> compute_summary(acall.df)]
  /\ UNCHANGED <<fsDir, fsFile, view, fcall, scall>>

MoversCall ==
  /\ acall.op = "pending"
  /\ acall' = [op |-> "top_movers", df |-> acall.df, n |-> acall.n,
               ret |-> top_movers(acall.df, acall.n)]
  /\ UNCHANGED <<fsDir, fsFile, view, fcall, scall>>

NextAgg == SummaryCall \/ MoversCall

SpecAgg == InitAgg /\ [][NextAgg]_vars

(* ------------------------- claims on the Fetcher ---------------------- *)
FDone == fcall.op = "done"

AllFail(args) == \A k \in 1..args.retries : args.fails[k]

SomeSuccess(args) == \E k \in 1..args.retries : ~args.fails[k]

FirstSuccess(args) ==
  CHOOSE k \in 1..args.retries :
    ~args.fails[k] /\ \A j \in 1..(k - 1) : args.fails[j]

(* The log is get, sleep(delay), get, ..., get with k gets *)
AlternatingLog(log, k, delay) ==
  /\ Len(log) = 2 * k - 1
  /\ \A i \in 1..Len(log) :
        IF i % 2 = 1 THEN log[i] = GetEv ELSE log[i] = SleepEv(delay)

(* C1: when every attempt fails with a RequestException and retries >= 1,  *)
(* the call makes exactly `retries` attempts, sleeps the fixed delay only  *)
(* between consecutive attempts (retries - 1 sleeps, none after the last   *)
(* attempt) and returns the empty list.                                    *)
C1_ExhaustedRetries ==
  (FDone /\ fcall.args.retries >= 1 /\ AllFail(fcall.args)) =>
    /\ fcall.ret.kind = "list"
    /\ fcall.ret.data = <<>>
    /\ fcall.ret.attempts = fcall.args.retries
    /\ AlternatingLog(fcall.ret.log, fcall.args.retries, fcall.args.delay)

C1_Witness ==
  /\ FDone
  /\ fcall.args.retries = 3
  /\ AllFail(fcall.args)
  /\ fcall.ret.data = <<>>
  /\ Len(fcall.ret.log) = 5

(* What the claim C9 says of one entry *)
ClaimedDefault(val) == IF val.t = "absent" THEN Num(0) ELSE val

ClaimedSymbol(val) ==
  IF val.t = "str" THEN Str(Upper(val.s)) ELSE IF val.t = "absent" THEN Str(<<>>) ELSE val

(* C9 as stated: on a successful response every upstream entry becomes one *)
(* record, in order, whose price_change_percentage_24h is the upstream     *)
(* value when present and 0 when absent, whose current_price, total_volume *)
(* and market_cap are the upstream value or 0, and whose symbol is the     *)
(* upper-cased upstream symbol ("" when absent).  Stated for the          *)
(* responses whose symbols are strings or absent.                          *)
C9_Original ==
  (FDone /\ SomeSuccess(fcall.args) /\ ~CleanRaises(fcall.args.body)) =>
    /\ fcall.ret.kind = "list"
    /\ Len(fcall.ret.data) = Len(fcall.args.body)
    /\ \A i \in 1..Len(fcall.args.body) :
         LET c == fcall.args.body[i]
             r == fcall.ret.data[i]
         IN /\ r.price_change_percentage_24h = ClaimedDefault(c.price_change_percentage_24h)
            /\ r.current_price = ClaimedDefault(c.current_price)
            /\ r.total_volume = ClaimedDefault(c.total_volume)
            /\ r.market_cap = ClaimedDefault(c.market_cap)
            /\ r.symbol = ClaimedSymbol(c.symbol)

(* C9 amended: an entry with a null symbol makes the call raise; otherwise *)
(* every entry becomes one record, in order, whose                         *)
(* price_change_percentage_24h is the upstream value when that is a        *)
(* non-zero number, else the upstream                                      *)
(* price_change_percentage_24h_in_currency when that key is present (null  *)
(* included), else 0; current_price, total_volume and market_cap are the   *)
(* upstream value when the key is present (null stays null) and 0 when it  *)
(* is absent; symbol is the upper-cased upstream symbol, "" when absent.   *)
C9_Amended ==
  (FDone /\ SomeSuccess(fcall.args)) =>
    IF \E i \in 1..Len(fcall.args.body) : fcall.args.body[i].symbol.t = "none"
      THEN fcall.ret.kind = "raise"
      ELSE /\ fcall.ret.kind = "list"
           /\ Len(fcall.ret.data) = Len(fcall.args.body)
           /\ \A i \in 1..Len(fcall.args.body) :
                LET c == fcall.args.body[i]
                    r == fcall.ret.data[i]
                    pc == c.price_change_percentage_24h
                    inc == c.price_change_percentage_24h_in_currency
                IN /\ r.price_change_percentage_24h =
                        (IF pc.t = "num" /\ pc.v # 0 THEN pc
                         ELSE IF inc.t = "absent" THEN Num(0) ELSE inc)
                   /\ r.current_price = ClaimedDefault(c.current_price)
                   /\ r.total_volume = ClaimedDefault(c.total_volume)
                   /\ r.market_cap = ClaimedDefault(c.market_cap)
                   /\ r.symbol = ClaimedSymbol(c.symbol)

(* a zero upstream change with the in-currency field present, in second    *)
(* place of a two-entry response                                           *)
C9_Witness ==
  /\ FDone
  /\ SomeSuccess(fcall.args)
  /\ fcall.ret.kind = "list"
  /\ Len(fcall.args.body) = 2
  /\ fcall.args.body[2].price_change_percentage_24h = Num(0)
  /\ fcall.args.body[2].price_change_percentage_24h_in_currency = Num(7)
  /\ fcall.ret.data[2].price_change_percentage_24h = Num(7)
  /\ fcall.ret.data[1].symbol = Str(<<"B", "T">>)

(* C10 as stated: for every retries >= 0 and every pattern of success and  *)
(* transient failure the call returns a list, never None; it stops at the  *)
(* first successful attempt and returns that attempt's records.            *)
C10_AlwaysList ==
  (FDone /\ ~CleanRaises(fcall.args.body)) =>
    /\ fcall.ret.kind = "list"
    /\ SomeSuccess(fcall.args) =>
         /\ fcall.ret.attempts = FirstSuccess(fcall.args)
         /\ fcall.ret.data = CleanAll(fcall.args.body)

(* -------------------------- claims on the Store ----------------------- *)
(* a saved numeric value and the loaded one: a number stays the number; a  *)
(* missing value (None) is the missing value of a float column (NaN)       *)
SameNumber(saved, loaded) ==
  \/ saved.t = "num" /\ loaded = saved
  \/ saved.t = "none" /\ loaded.t = "nan"

SameRecord(saved, row) ==
  /\ row.name = saved.name
  /\ row.symbol = saved.symbol
  /\ row.image = saved.image
  /\ SameNumber(saved.current_price, row.current_price)
  /\ SameNumber(saved.price_change_percentage_24h, row.price_change_percentage_24h)
  /\ SameNumber(saved.total_volume, row.total_volume)
  /\ SameNumber(saved.market_cap, row.market_cap)

Reproduces(data, df) ==
  /\ df.kind = "frame"
  /\ Len(df.rows) = Len(data)
  /\ \A i \in 1..Len(data) : SameRecord(data[i], df.rows[i])

(* C4 as stated: for every snapshot the Fetcher can return, the empty one  *)
(* included, load_data of the file written by save_latest_data does not    *)
(* raise and yields the same records in the same order with equal numeric  *)
(* fields.                                                                 *)
C4_RoundTrip ==
  (scall.op = "load" /\ scall.saves >= 1) => Reproduces(scall.data, scall.ret)

(* C5 as stated: after any sequence of saves the file holds exactly the    *)
(* snapshot of the last save (the directory exists), and load returns      *)
(* exactly that snapshot.                                                  *)
C5_LastSaveWins ==
  (scall.saves >= 1) =>
    /\ fsDir
    /\ fsFile.exists
    /\ fsFile.content = DumpAll(scall.data)
    /\ (scall.op = "load" => Reproduces(scall.data, scall.ret))

(* ------------------------ claims on the Aggregator -------------------- *)
(* C7 as stated: for any snapshot compute_summary returns a result whose   *)
(* total_coins is the number of records.                                   *)
C7_Original ==
  (acall.op = "compute_summary") =>
    /\ "total_coins" \in DOMAIN acall.ret
    /\ acall.ret.total_coins = Len(acall.df.rows)

(* C7 amended: for any non-empty snapshot compute_summary returns a result *)
(* whose total_coins is the number of records; for the empty snapshot it   *)
(* returns the empty result, which has no total_coins.                     *)
C7_Amended ==
  (acall.op = "compute_summary") =>
    IF Len(acall.df.rows) = 0
      THEN DOMAIN acall.ret = {}
      ELSE /\ "total_coins" \in DOMAIN acall.ret
           /\ acall.ret.total_coins = Len(acall.df.rows)

(* three records, one of them without a price *)
C7_Witness ==
  /\ acall.op = "compute_summary"
  /\ Len(acall.df.rows) = 3
  /\ \E i \in 1..3 : acall.df.rows[i].current_price.t = "nan"
  /\ acall.ret.total_coins = 3

(* a comes before b in the stable order: by value (descending for the      *)
(* gainers, ascending for the losers), equal values by input position; a   *)
(* record whose change is missing (NaN) comes after every number           *)
ComesBefore(a, b, descending) ==
  LET x == a.price_change_percentage_24h
      y == b.price_change_percentage_24h
  IN IF x.t = "num" /\ y.t = "num"
       THEN \/ (IF descending THEN x.v > y.v ELSE x.v < y.v)
            \/ x.v = y.v /\ a.idx < b.idx
       ELSE IF x.t = "num" THEN TRUE
       ELSE IF y.t = "num" THEN FALSE
       ELSE a.idx < b.idx

(* sel holds the first min(n, len) records of the stable order *)
FirstOfStableOrder(sel, rows, n, descending) ==
  /\ Len(sel) = Min(n, Len(rows))
  /\ \A i \in 1..Len(sel) : \E j \in 1..Len(rows) : sel[i] = Project(rows[j])
  /\ \A i, j \in 1..Len(sel) : i < j => ComesBefore(sel[i], sel[j], descending)
  /\ \A j \in 1..Len(rows) :
        (\A i \in 1..Len(sel) : sel[i].idx # rows[j].idx) =>
          \A i \in 1..Len(sel) : ComesBefore(sel[i], Project(rows[j]), descending)

(* C8: for every snapshot and n >= 0, top_movers returns as gainers the    *)
(* first min(n, len) records of the snapshot stably sorted by descending   *)
(* change and as losers the first min(n, len) stably sorted by ascending   *)
(* change: n records each when there are at least n, all records           *)
(* otherwise, two empty sequences for the empty snapshot; gainers          *)
(* non-increasing, losers non-decreasing, equal changes in input order.    *)
C8_TopMovers ==
  (acall.op = "top_movers") =>
    /\ FirstOfStableOrder(acall.ret.top_gainers, acall.df.rows, acall.n, TRUE)
    /\ FirstOfStableOrder(acall.ret.top_losers, acall.df.rows, acall.n, FALSE)

(* three records of which the two largest changes are equal, n = 2 *)
C8_Witness ==
  /\ acall.op = "top_movers"
  /\ acall.n = 2
  /\ Len(acall.df.rows) = 3
  /\ acall.df.rows[1].price_change_percentage_24h = Num(5)
  /\ acall.df.rows[2].price_change_percentage_24h = Num(-3)
  /\ acall.df.rows[3].price_change_percentage_24h = Num(5)
  /\ acall.ret.top_gainers[1].idx = 0
  /\ acall.ret.top_gainers[2].idx = 2
  /\ acall.ret.top_losers[1].idx = 1

(* ------------------------ claims on the page views -------------------- *)
PageRoutes == {"index", "analytics", "charts"}

(* C2 as stated: a page view (index, analytics, charts) calls the Fetcher  *)
(* only when no snapshot file exists; when the file exists it performs no  *)
(* fetch and only loads the snapshot.                                      *)
C2_Original ==
  (view.op # "none" /\ view.route \in PageRoutes) =>
    /\ view.fetches > 0 => ~view.existed
    /\ view.existed => (view.fetches = 0 /\ view.loads = 1)

(* C2 amended: the index page calls the Fetcher exactly when no snapshot   *)
(* file exists, and the analytics page never calls it; on these two pages  *)
(* a view with the file present performs no fetch and only loads the       *)
(* snapshot.  The charts page calls the Fetcher on every view, whether the *)
(* file exists or not, and never loads the snapshot.                       *)
C2_Amended ==
  (view.op # "none") =>
    /\ view.route = "index" =>
         /\ view.fetches > 0 <=> ~view.existed
         /\ view.existed => view.loads = 1
    /\ view.route = "analytics" => (view.fetches = 0 /\ view.loads = 1)
    /\ view.route = "charts" => (view.fetches = 1 /\ view.loads = 0)

(* the index page served a stored snapshot of two records without a fetch *)
C2_Witness ==
  /\ view.op # "none"
  /\ view.route = "index"
  /\ view.existed
  /\ view.fetches = 0
  /\ view.status = 200
  /\ Len(view.payload) = 2

(* C3 as stated: after a page view that triggers a successful fetch (index *)
(* with the snapshot absent, or charts) the snapshot file exists and holds *)
(* exactly the records that fetch returned, so the next load returns them. *)
C3_FetchOverwritesFile ==
  ( /\ view.op # "none"
    /\ view.route \in {"index", "charts"}
    /\ view.fetches > 0
    /\ view.fetch.kind = "list"
    /\ Len(view.fetch.data) > 0 ) =>
    /\ fsFile.exists
    /\ fsFile.content = DumpAll(view.fetch.data)
    /\ Reproduces(view.fetch.data, load_data(fsFile))

(* C6: with the snapshot file absent load_data returns an empty frame      *)
(* without raising and creates nothing on disk, and the analytics page     *)
(* answers with the no-data message without calling compute_summary,       *)
(* top_movers or correlation_matrix and without a fetch.                   *)
C6_MissingFile ==
  (view.op # "none" /\ view.route = "analytics" /\ ~view.existed) =>
    /\ view.df = EmptyFrame
    /\ view.status = 200
    /\ view.page = "no data"
    /\ view.calls = {}
    /\ view.fetches = 0
    /\ ~fsFile.exists
    /\ fsDir = view.dirBefore

C6_Witness ==
  /\ view.op # "none"
  /\ view.route = "analytics"
  /\ ~view.existed
  /\ view.page = "no data"
  /\ view.loads = 1

====
